---- MODULE Spec2Model ----
(***************************************************************************)
(* Verification model of beacon-kit's blob processor (package blobs,       *)
(* Processor.ProcessBlobs), of the slashing accounting of the state        *)
(* processor (package core, processSlashingsReset / processSlashings /     *)
(* processSlash), of the pre-block handler (package preblock,              *)
(* BeaconPreBlockHandler.PreBlocker) and of the node builder's tempDir.    *)
(*                                                                         *)
(* Go error values are modelled as sequences of error names: the nil error *)
(* is the empty sequence, a plain error is a one-element sequence, and     *)
(* errors.Join is the concatenation of the non-nil errors in order.        *)
(*                                                                         *)
(* Go's uint64 is modelled by a word of WordBits bits: every uint64        *)
(* multiplication and addition of the code is reduced modulo 2^WordBits,   *)
(* so that wrap-around happens in the model where it happens in the code.  *)
(*                                                                         *)
(* The beacon state accessor, the chain spec, the proof verifiers and the  *)
(* availability store are collaborators whose code is not part of the      *)
(* modelled files; they are modelled by their interface contract.          *)
(***************************************************************************)
EXTENDS Integers, Sequences, FiniteSets, TLC

\* ------------------------------------------------------------------ bounds

\* Largest number of sidecars in a batch handed to ProcessBlobs.
MaxSidecars == 3

\* Largest slot number a batch is processed under.
MaxBlobSlot == 1

\* Width in bits of the machine word that stands for Go's uint64: every
\* uint64 operation of the code is taken modulo 2^WordBits.
WordBits == 3

\* Largest slot the beacon state is at.
MaxSlot == 5

\* Largest length of the slashings vector (EpochsPerSlashingsVector).
MaxVector == 3

\* Largest amount held by one entry of the slashings vector.
MaxSlashed == 2

\* Number of validators in the beacon state.
NumValidators == 2

\* Largest block height a RequestFinalizeBlock is handled for.
MaxHeight == 2

\* Largest number of calls of tempDir.
MaxTempDirs == 3

\* ------------------------------------------------------------------ errors

Nil == <<>>

ErrAttemptedToVerifyNilSidecar == <<"ErrAttemptedToVerifyNilSidecar">>

ErrKZGInclusionProof == <<"ErrKZGInclusionProof">>

ErrVerifyKZGProofs == <<"ErrVerifyKZGProofs">>

ErrPersist == <<"ErrPersist">>

\* errors.Join(errs...): nil errors are discarded, the others are wrapped in
\* the order given; the result is nil when every error is nil.
RECURSIVE Join(_)
Join(errs) ==
    IF errs = <<>> THEN Nil ELSE Head(errs) \o Join(Tail(errs))

\* ------------------------------------------------------------------- state

VARIABLES
    bSlot,          \* ProcessBlobs argument slot
    sidecars,       \* ProcessBlobs argument sidecars.Sidecars: a sequence of
                    \* "nil" (nil pointer), "valid" or "invalid" (inclusion proof)
    kzgOutcome,     \* what p.bv.VerifyKZGProofs(sidecars) returns for the batch
    persistOutcome, \* what avs.Persist(slot, sidecars) returns
    pc,             \* position of the goroutine running ProcessBlobs
    task,           \* status of the two goroutines started with g.Go
    mapDone,        \* positions iter.Map has already applied the closure to
    mapRes,         \* iter.Map's result slice ([]error), one entry per position
    taskErr,        \* the error each task function returned
    doneOrder,      \* the tasks in the order in which they returned
    gErr,           \* errgroup.Group.err
    gWg,            \* errgroup.Group.wg: goroutines not yet done
    gCtxDone,       \* the context derived by errgroup.WithContext is cancelled
    signal,         \* the orchestration raised a timeout / cancellation
    persistCalls,   \* the calls made to avs.Persist, in order
    ret,            \* the error ProcessBlobs returned (meaningful at pc = "done")
    cs,             \* the chain spec: the parameters sp.cs serves
    stSlot,         \* BeaconState: the current slot
    stSlashings,    \* BeaconState: the slashings vector
    stValidators,   \* BeaconState: the validator records, by index
    stBalances,     \* BeaconState: the balances, by validator index
    stTotalActive,  \* BeaconState: what GetTotalActiveBalances returns
    stTotalSlashing,\* BeaconState: what GetTotalSlashing returns
    last,           \* the last state-processor call: its inputs and outcome
    hpc,            \* position of the goroutine running the PreBlocker handler
    hReq,           \* req.Height of the RequestFinalizeBlock being handled
    hNext,          \* h.nextHandler is set (not nil)
    hTrace,         \* the calls the running invocation has made, in order
    hCtx,           \* the store of ctx: the state changes visible in it
    hCache,         \* the store of cacheCtx (meaningful once it was branched)
    hWrites,        \* the number of times the running invocation called write()
    hRet,           \* the error the handler returned (meaningful at "returned")
    recorded,       \* per entry of the slashings vector: the epoch of the
                    \* last slashing recorded there and the amount recorded
    resetLog,       \* the successful resets of the past epochs, in order
    fs,             \* the file system: per path, whether a directory exists
                    \* there and the files it holds
    tdpc,           \* position of the goroutine running tempDir
    tdDir,          \* tempDir's local variable dir
    tdPre,          \* the file system as it was when tempDir was called
    tdCalls         \* the number of calls of tempDir so far

blobVars == <<bSlot, sidecars, kzgOutcome, persistOutcome, pc, task, mapDone,
              mapRes, taskErr, doneOrder, gErr, gWg, gCtxDone, signal,
              persistCalls, ret>>

stateVars == <<cs, stSlot, stSlashings, stValidators, stBalances,
               stTotalActive, stTotalSlashing, last>>

preBlockVars == <<hpc, hReq, hNext, hTrace, hCtx, hCache, hWrites, hRet>>

epochVars == <<recorded, resetLog>>

tempDirVars == <<fs, tdpc, tdDir, tdPre, tdCalls>>

hostVars == <<preBlockVars, epochVars, tempDirVars>>

vars == <<blobVars, stateVars, hostVars>>

Tasks == {"incl", "kzg"}

SidecarValues == {"nil", "valid", "invalid"}

Batches == UNION {[1..n -> SidecarValues] : n \in 0..MaxSidecars}

\* The verdicts of the aggregate verifier, p.bv.VerifyKZGProofs(sidecars).
VerifyKZGProofsOutcomes == {Nil, ErrVerifyKZGProofs}

\* The outcomes of the availability store's write, avs.Persist(slot, sidecars).
PersistOutcomes == {Nil, ErrPersist}

\* ------------------------------------------------------------ ProcessBlobs

\* The closure handed to iter.Map: a nil sidecar is an error of its own,
\* any other sidecar gets types.VerifyKZGInclusionProof's verdict.
VerifySidecar(sc) ==
    IF sc = "nil" THEN ErrAttemptedToVerifyNilSidecar
    ELSE IF sc = "invalid" THEN ErrKZGInclusionProof
    ELSE Nil

\* Faulty variant: a later error overwrites the one already recorded.
RecordErrLast(old, new) ==
    IF new # Nil THEN new ELSE old

\* errgroup's errOnce: only the first non-nil error a task returns is kept.
RecordErr(old, new) ==
    IF old = Nil THEN new ELSE old

\* Faulty variant: the wait ends as soon as one goroutine has returned.
WaitReadyFirstDone(wg) == wg <= 1

\* g.Wait() blocks on the group's WaitGroup: until every goroutine started
\* with g.Go has returned.
WaitReady(wg) == wg = 0

\* Faulty variant: the batch goes to avs.Persist whatever g.Wait() returned.
ShouldPersistAlways(err) == TRUE

\* Variant with a cancellation check: a signalled run is not persisted.
ShouldPersistUnlessSignalled(err) == err = Nil /\ ~signal

\* After g.Wait(): a non-nil error is returned at once, otherwise the batch
\* goes to avs.Persist.
ShouldPersist(err) == err = Nil

\* Faulty variant: only the first sidecar of the batch is handed over.
PersistArgsFirstOnly(s, scs) ==
    [slot |-> s, sidecars |-> IF scs = <<>> THEN scs ELSE <<Head(scs)>>]

\* The arguments ProcessBlobs passes to avs.Persist.
PersistArgs(s, scs) == [slot |-> s, sidecars |-> scs]

\* The state processor at rest, its state empty: the part of the state the
\* blob processor never touches.
NoStateProcessor ==
    /\ cs = [SlotsPerEpoch |-> 1, EpochsPerSlashingsVector |-> 0,
             ProportionalSlashingMultiplier |-> 0,
             EffectiveBalanceIncrement |-> 0]
    /\ stSlot = 0
    /\ stSlashings = <<>>
    /\ stValidators = <<>>
    /\ stBalances = <<>>
    /\ stTotalActive = 0
    /\ stTotalSlashing = 0
    /\ last = [op |-> "none", ret |-> <<>>, epoch |-> 0,
               preSlashings |-> <<>>, preBalances |-> <<>>,
               computed |-> FALSE, adjusted |-> 0, decreases |-> <<>>,
               updates |-> <<>>]

\* No pre-block handler is running.
NoPreBlocker ==
    /\ hpc = "idle"
    /\ hReq = 0
    /\ hNext = FALSE
    /\ hTrace = <<>>
    /\ hCtx = {}
    /\ hCache = {}
    /\ hWrites = 0
    /\ hRet = Nil

\* No history of epochs is kept.
NoEpochs ==
    /\ recorded = <<>>
    /\ resetLog = <<>>

\* tempDir is not in use.
NoTempDir ==
    /\ fs = <<>>
    /\ tdpc = "idle"
    /\ tdDir = <<>>
    /\ tdPre = <<>>
    /\ tdCalls = 0

\* The node outside the blob processor and the state processor at rest.
NoHost == NoPreBlocker /\ NoEpochs /\ NoTempDir

InitBlobs ==
    /\ NoStateProcessor
    /\ NoHost
    /\ bSlot \in 0..MaxBlobSlot
    /\ sidecars \in Batches
    /\ kzgOutcome \in VerifyKZGProofsOutcomes
    /\ persistOutcome \in PersistOutcomes
    /\ pc = "go1"
    /\ task = [t \in Tasks |-> "idle"]
    /\ mapDone = {}
    /\ mapRes = [i \in 1..Len(sidecars) |-> Nil]
    /\ taskErr = [t \in Tasks |-> Nil]
    /\ doneOrder = <<>>
    /\ gErr = Nil
    /\ gWg = 0
    /\ gCtxDone = FALSE
    /\ signal = FALSE
    /\ persistCalls = <<>>
    /\ ret = Nil

\* Faulty variant: the goroutine is started without wg.Add(1).
GroupGoWithoutAdd(t) ==
    /\ task' = [task EXCEPT ![t] = "running"]
    /\ gWg' = gWg

\* g.Go(f): wg.Add(1) and start the goroutine.
GroupGo(t) ==
    /\ task' = [task EXCEPT ![t] = "running"]
    /\ gWg' = gWg + 1

\* The tail of the goroutine g.Go starts, once f has returned err: the first
\* non-nil error is stored and cancels the derived context, then wg.Done().
GroupDone(t, err) ==
    /\ task' = [task EXCEPT ![t] = "done"]
    /\ taskErr' = [taskErr EXCEPT ![t] = err]
    /\ doneOrder' = Append(doneOrder, t)
    /\ gErr' = RecordErr(gErr, err)
    /\ gCtxDone' = (gCtxDone \/ (gErr = Nil /\ err # Nil))
    /\ gWg' = gWg - 1

\* g.Go of the inclusion-proof task.
GoInclusion ==
    /\ pc = "go1"
    /\ GroupGo("incl")
    /\ pc' = "go2"
    /\ UNCHANGED <<stateVars, hostVars>>
    /\ UNCHANGED <<bSlot, sidecars, kzgOutcome, persistOutcome, mapDone, mapRes,
                   taskErr, doneOrder, gErr, gCtxDone, signal, persistCalls, ret>>

\* g.Go of the aggregate KZG proof task.
GoKZG ==
    /\ pc = "go2"
    /\ GroupGo("kzg")
    /\ pc' = "wait"
    /\ UNCHANGED <<stateVars, hostVars>>
    /\ UNCHANGED <<bSlot, sidecars, kzgOutcome, persistOutcome, mapDone, mapRes,
                   taskErr, doneOrder, gErr, gCtxDone, signal, persistCalls, ret>>

\* Faulty variant: the first failing position ends the map.
MapSidecarStopAtFailure(i) ==
    /\ task["incl"] = "running"
    /\ i \in 1..Len(sidecars)
    /\ i \notin mapDone
    /\ mapRes' = [mapRes EXCEPT ![i] = VerifySidecar(sidecars[i])]
    /\ mapDone' = IF VerifySidecar(sidecars[i]) # Nil
                  THEN 1..Len(sidecars) ELSE mapDone \cup {i}
    /\ UNCHANGED <<stateVars, hostVars>>
    /\ UNCHANGED <<bSlot, sidecars, kzgOutcome, persistOutcome, pc, task,
                   taskErr, doneOrder, gErr, gWg, gCtxDone, signal,
                   persistCalls, ret>>

\* iter.Map applies the closure to position i; positions are taken by
\* concurrent workers, so in any order.
MapSidecar(i) ==
    /\ task["incl"] = "running"
    /\ i \in 1..Len(sidecars)
    /\ i \notin mapDone
    /\ mapRes' = [mapRes EXCEPT ![i] = VerifySidecar(sidecars[i])]
    /\ mapDone' = mapDone \cup {i}
    /\ UNCHANGED <<stateVars, hostVars>>
    /\ UNCHANGED <<bSlot, sidecars, kzgOutcome, persistOutcome, pc, task,
                   taskErr, doneOrder, gErr, gWg, gCtxDone, signal,
                   persistCalls, ret>>

\* The inclusion-proof task returns errors.Join of iter.Map's results.
InclusionReturn ==
    /\ task["incl"] = "running"
    /\ mapDone = 1..Len(sidecars)
    /\ GroupDone("incl", Join(mapRes))
    /\ UNCHANGED <<stateVars, hostVars>>
    /\ UNCHANGED <<bSlot, sidecars, kzgOutcome, persistOutcome, pc, mapDone,
                   mapRes, signal, persistCalls, ret>>

\* The aggregate task returns p.bv.VerifyKZGProofs(sidecars).
KZGReturn ==
    /\ task["kzg"] = "running"
    /\ GroupDone("kzg", kzgOutcome)
    /\ UNCHANGED <<stateVars, hostVars>>
    /\ UNCHANGED <<bSlot, sidecars, kzgOutcome, persistOutcome, pc, mapDone,
                   mapRes, signal, persistCalls, ret>>

\* if err := g.Wait(); err != nil { return err }
Wait ==
    /\ pc = "wait"
    /\ WaitReady(gWg)
    /\ gCtxDone' = TRUE
    /\ IF ShouldPersist(gErr)
       THEN pc' = "persist" /\ ret' = ret
       ELSE pc' = "done" /\ ret' = gErr
    /\ UNCHANGED <<stateVars, hostVars>>
    /\ UNCHANGED <<bSlot, sidecars, kzgOutcome, persistOutcome, task, mapDone,
                   mapRes, taskErr, doneOrder, gErr, gWg, signal, persistCalls>>

\* return avs.Persist(slot, sidecars)
Persist ==
    /\ pc = "persist"
    /\ persistCalls' = Append(persistCalls, PersistArgs(bSlot, sidecars))
    /\ ret' = persistOutcome
    /\ pc' = "done"
    /\ UNCHANGED <<stateVars, hostVars>>
    /\ UNCHANGED <<bSlot, sidecars, kzgOutcome, persistOutcome, task, mapDone,
                   mapRes, taskErr, doneOrder, gErr, gWg, gCtxDone, signal>>

\* The orchestration raises a timeout or cancellation while ProcessBlobs is
\* verifying.  ProcessBlobs takes no context and builds its group on
\* context.Background(), so nothing in it reads the signal.
OrchestratorSignal ==
    /\ pc # "done"
    /\ persistCalls = <<>>
    /\ ~signal
    /\ signal' = TRUE
    /\ UNCHANGED <<stateVars, hostVars>>
    /\ UNCHANGED <<bSlot, sidecars, kzgOutcome, persistOutcome, pc, task,
                   mapDone, mapRes, taskErr, doneOrder, gErr, gWg, gCtxDone,
                   persistCalls, ret>>

NextBlobs ==
    \/ GoInclusion
    \/ GoKZG
    \/ \E i \in 1..MaxSidecars : MapSidecar(i)
    \/ InclusionReturn
    \/ KZGReturn
    \/ Wait
    \/ Persist
    \/ OrchestratorSignal

SpecBlobs == InitBlobs /\ [][NextBlobs]_vars

\* --------------------------------------------------------- state processor

\* Go's uint64 holds the values 0 .. 2^64 - 1 and its arithmetic wraps; the
\* model's word holds 0 .. Wrap - 1.
Wrap == 2 ^ WordBits

Gwei == 0..(Wrap - 1)

Min(a, b) == IF a < b THEN a ELSE b

\* A Go runtime panic of an integer division or remainder by zero.
PanicDivideByZero == <<"panic: runtime error: integer divide by zero">>

\* The error a failing state-accessor operation returns.
StateErr(op) == <<op>>

\* No blob batch is being processed.
NoBlobs ==
    /\ bSlot = 0
    /\ sidecars = <<>>
    /\ kzgOutcome = Nil
    /\ persistOutcome = Nil
    /\ pc = "idle"
    /\ task = [t \in Tasks |-> "idle"]
    /\ mapDone = {}
    /\ mapRes = <<>>
    /\ taskErr = [t \in Tasks |-> Nil]
    /\ doneOrder = <<>>
    /\ gErr = Nil
    /\ gWg = 0
    /\ gCtxDone = FALSE
    /\ signal = FALSE
    /\ persistCalls = <<>>
    /\ ret = Nil

\* sp.cs.SlotToEpoch(slot)
SlotToEpoch(slot) == slot \div cs.SlotsPerEpoch

\* st.UpdateSlashingAtIndex(index, amount); the vector's index is 0-based.
UpdateSlashingAtIndex(slashings, index, amount) ==
    [slashings EXCEPT ![index + 1] = amount]

\* st.ValidatorIndexByPubkey(pubkey)
ValidatorIndexByPubkey(vals, pubkey) ==
    CHOOSE i \in 1..Len(vals) : vals[i].Pubkey = pubkey

\* st.DecreaseBalance(idx, delta): the balance saturates at zero.
DecreaseBalance(balances, idx, delta) ==
    [balances EXCEPT ![idx] = IF delta > @ THEN 0 ELSE @ - delta]

\* Faulty variant: the current epoch's entry is reset.
ResetIndexCurrentEpoch(epoch, n) == (epoch % Wrap) % n

\* processSlashingsReset: the index of the slashings vector that is reset.
ResetIndex(epoch, n) == ((epoch + 1) % Wrap) % n

\* The record kept of the last call into the state processor.
CallRecord(op, result, epoch, computed, adjusted, decreases, updates) ==
    [op |-> op, ret |-> result, epoch |-> epoch,
     preSlashings |-> stSlashings, preBalances |-> stBalances,
     computed |-> computed, adjusted |-> adjusted, decreases |-> decreases,
     updates |-> updates]

\* processSlashingsReset(st)
ProcessSlashingsReset ==
    \E fail \in {"none", "GetSlot", "UpdateSlashingAtIndex"} :
        LET epoch == SlotToEpoch(stSlot)
            n == cs.EpochsPerSlashingsVector
            result ==
                IF fail = "GetSlot" THEN StateErr(fail)
                ELSE IF n = 0 THEN PanicDivideByZero
                ELSE IF fail = "UpdateSlashingAtIndex" THEN StateErr(fail)
                ELSE Nil
        IN  /\ pc = "idle"
            /\ stSlashings' =
                  IF result = Nil
                  THEN UpdateSlashingAtIndex(stSlashings, ResetIndex(epoch, n), 0)
                  ELSE stSlashings
            /\ last' = CallRecord("processSlashingsReset", result, epoch,
                                  FALSE, 0, <<>>,
                                  IF n = 0 \/ fail = "GetSlot" THEN <<>>
                                  ELSE <<[index |-> ResetIndex(epoch, n),
                                          amount |-> 0]>>)
            /\ UNCHANGED <<cs, stSlot, stValidators, stBalances, stTotalActive,
                           stTotalSlashing>>
            /\ UNCHANGED <<blobVars, hostVars>>

\* processSlashings: the clamp of the scaled slashing total.
AdjustedTotalSlashingBalance(totalSlashings, multiplier, totalBalance) ==
    Min((totalSlashings * multiplier) % Wrap, totalBalance)

\* Faulty variant: the sum is not halved.
SlashableEpochNotHalved(epoch, n) == (epoch + n) % Wrap

\* processSlashings: the epoch at which a slashed validator is penalized.
SlashableEpoch(epoch, n) == ((epoch + n) % Wrap) \div 2

\* processSlashings: the test that sends a validator to processSlash.
IsSlashable(val, epoch, n) ==
    val.Slashed /\ SlashableEpoch(epoch, n) = val.WithdrawableEpoch

\* processSlash: the penalty, in uint64 arithmetic.
Penalty(effectiveBalance, increment, adjusted, totalBalance) ==
    LET balDivIncrement == effectiveBalance \div increment
        penaltyNumerator == (balDivIncrement * adjusted) % Wrap
    IN  ((penaltyNumerator \div totalBalance) * increment) % Wrap

\* processSlash(st, val, adjustedTotalSlashingBalance, totalBalance), as the
\* nth call of the pass; fail names the accessor call that fails, if any.
ProcessSlash(acc, val, adjusted, totalBalance, fail) ==
    LET increment == cs.EffectiveBalanceIncrement
        nth == acc.slashed + 1
        a == [acc EXCEPT !.slashed = nth]
        idx == ValidatorIndexByPubkey(stValidators, val.Pubkey)
        penalty == Penalty(val.EffectiveBalance, increment, adjusted, totalBalance)
        call == [idx |-> idx, amount |-> penalty, adjusted |-> adjusted,
                 totalBalance |-> totalBalance, pubkey |-> val.Pubkey,
                 effectiveBalance |-> val.EffectiveBalance]
    IN  IF increment = 0 \/ totalBalance = 0
        THEN [a EXCEPT !.ret = PanicDivideByZero]
        ELSE IF fail = [op |-> "ValidatorIndexByPubkey", nth |-> nth]
        THEN [a EXCEPT !.ret = StateErr(fail.op)]
        ELSE IF fail = [op |-> "DecreaseBalance", nth |-> nth]
        THEN [a EXCEPT !.ret = StateErr(fail.op),
                       !.decreases = Append(@, call)]
        ELSE [a EXCEPT !.balances = DecreaseBalance(@, idx, penalty),
                       !.decreases = Append(@, call)]

\* The sum of the amounts of a sequence of DecreaseBalance calls.
RECURSIVE Deducted(_)
Deducted(calls) ==
    IF calls = <<>> THEN 0 ELSE Head(calls).amount + Deducted(Tail(calls))

\* Faulty variant: the total is taken again inside the loop, from balances
\* the earlier iterations have lowered.
LoopTotalBalanceReread(acc, totalBalance) ==
    IF Deducted(acc.decreases) > totalBalance THEN 0
    ELSE totalBalance - Deducted(acc.decreases)

\* processSlashings: the totalBalance argument of a processSlash call in the
\* loop, the variable read once before the loop.
LoopTotalBalance(acc, totalBalance) == totalBalance

\* Faulty variant: the loop goes on after a failed processSlash.
LoopReturnsNever(acc) == FALSE

\* processSlashings: if err = sp.processSlash(...); err != nil { return err }
LoopReturns(acc) == acc.ret # Nil

\* processSlashings: the loop over the validators, left at the first error.
RECURSIVE SlashValidators(_, _, _, _, _, _)
SlashValidators(vals, acc, adjusted, totalBalance, epoch, fail) ==
    IF vals = <<>> \/ LoopReturns(acc) THEN acc
    ELSE SlashValidators(
            Tail(vals),
            IF IsSlashable(Head(vals), epoch, cs.EpochsPerSlashingsVector)
            THEN ProcessSlash(acc, Head(vals), adjusted,
                              LoopTotalBalance(acc, totalBalance), fail)
            ELSE acc,
            adjusted, totalBalance, epoch, fail)

\* The state reads processSlashings makes before its loop, in order.
PreLoopReads ==
    <<"GetTotalActiveBalances", "GetTotalSlashing", "GetValidators", "GetSlot">>

\* The accessor call that fails during a pass, if any.
SlashingFailures ==
    {[op |-> "none", nth |-> 0]}
    \cup {[op |-> PreLoopReads[k], nth |-> 0] : k \in 1..Len(PreLoopReads)}
    \cup [op : {"ValidatorIndexByPubkey", "DecreaseBalance"},
          nth : 1..NumValidators]

\* processSlashings(st); one pass is run on a state snapshot.
ProcessSlashings ==
    \E fail \in SlashingFailures :
        LET adjusted == AdjustedTotalSlashingBalance(
                            stTotalSlashing,
                            cs.ProportionalSlashingMultiplier,
                            stTotalActive)
            epoch == SlotToEpoch(stSlot)
            acc0 == [balances |-> stBalances, decreases |-> <<>>,
                     ret |-> Nil, slashed |-> 0]
            preLoop == \E k \in 1..Len(PreLoopReads) : fail.op = PreLoopReads[k]
            res == IF preLoop
                   THEN [acc0 EXCEPT !.ret = StateErr(fail.op)]
                   ELSE SlashValidators(stValidators, acc0, adjusted,
                                        stTotalActive, epoch, fail)
            computed == fail.op \notin {PreLoopReads[1], PreLoopReads[2]}
        IN  /\ pc = "idle"
            /\ last.op = "none"
            /\ stBalances' = res.balances
            /\ last' = CallRecord("processSlashings", res.ret, epoch, computed,
                                  IF computed THEN adjusted ELSE 0,
                                  res.decreases, <<>>)
            /\ UNCHANGED <<cs, stSlot, stSlashings, stValidators, stTotalActive,
                           stTotalSlashing>>
            /\ UNCHANGED <<blobVars, hostVars>>

\* A beacon state at some slot whose slashings vector holds arbitrary amounts.
InitReset ==
    /\ NoBlobs
    /\ NoHost
    /\ cs \in [SlotsPerEpoch : {2}, EpochsPerSlashingsVector : 0..MaxVector,
               ProportionalSlashingMultiplier : {1},
               EffectiveBalanceIncrement : {1}]
    /\ stSlot \in 0..MaxSlot
    /\ stSlashings \in [1..cs.EpochsPerSlashingsVector -> 0..MaxSlashed]
    /\ stValidators = <<>>
    /\ stBalances = <<>>
    /\ stTotalActive = 0
    /\ stTotalSlashing = 0
    /\ last = [op |-> "none", ret |-> Nil, epoch |-> 0,
               preSlashings |-> stSlashings, preBalances |-> stBalances,
               computed |-> FALSE, adjusted |-> 0, decreases |-> <<>>,
               updates |-> <<>>]

NextReset == ProcessSlashingsReset

SpecReset == InitReset /\ [][NextReset]_vars

\* The validator at index i: its public key and the attributes a.
ValidatorAt(i, a) ==
    [Pubkey |-> 100 + i, Slashed |-> a.Slashed,
     WithdrawableEpoch |-> a.WithdrawableEpoch,
     EffectiveBalance |-> a.Stake.EffectiveBalance]

\* A validator's effective balance with the balance it currently holds.
Stakes ==
    {[EffectiveBalance |-> 1, Balance |-> 0],
     [EffectiveBalance |-> 3, Balance |-> 2]}

\* A beacon state with NumValidators validators at some slot.
InitSlashings ==
    /\ NoBlobs
    /\ NoHost
    /\ cs \in [SlotsPerEpoch : {2}, EpochsPerSlashingsVector : {2},
               ProportionalSlashingMultiplier : {1, 2},
               EffectiveBalanceIncrement : {0, 1, 2}]
    /\ stSlot \in 0..MaxSlot
    /\ stSlashings = [i \in 1..cs.EpochsPerSlashingsVector |-> 0]
    /\ \E attrs \in [1..NumValidators ->
                       [Slashed : BOOLEAN, WithdrawableEpoch : {1, 2},
                        Stake : Stakes]] :
          /\ stValidators = [i \in 1..NumValidators |-> ValidatorAt(i, attrs[i])]
          /\ stBalances = [i \in 1..NumValidators |-> attrs[i].Stake.Balance]
    /\ stTotalActive \in {0, 2, 4}
    /\ stTotalSlashing \in {1, Wrap \div 2 + 1}
    /\ last = [op |-> "none", ret |-> Nil, epoch |-> 0,
               preSlashings |-> stSlashings, preBalances |-> stBalances,
               computed |-> FALSE, adjusted |-> 0, decreases |-> <<>>,
               updates |-> <<>>]

NextSlashings == ProcessSlashings

SpecSlashings == InitSlashings /\ [][NextSlashings]_vars

\* ---------------------------------------------------- epochs of the chain

\* A beacon state at genesis whose slashings vector is empty of amounts.
InitEpochs ==
    /\ NoBlobs
    /\ NoPreBlocker
    /\ NoTempDir
    /\ cs \in [SlotsPerEpoch : {1, 2}, EpochsPerSlashingsVector : 1..MaxVector,
               ProportionalSlashingMultiplier : {1},
               EffectiveBalanceIncrement : {1}]
    /\ stSlot = 0
    /\ stSlashings = [i \in 1..cs.EpochsPerSlashingsVector |-> 0]
    /\ stValidators = <<>>
    /\ stBalances = <<>>
    /\ stTotalActive = 0
    /\ stTotalSlashing = 0
    /\ last = [op |-> "none", ret |-> Nil, epoch |-> 0,
               preSlashings |-> stSlashings, preBalances |-> stBalances,
               computed |-> FALSE, adjusted |-> 0, decreases |-> <<>>,
               updates |-> <<>>]
    /\ recorded = [i \in 1..cs.EpochsPerSlashingsVector |->
                      [epoch |-> 0, amount |-> 0]]
    /\ resetLog = <<>>

\* A validator is slashed during the current epoch e: the slashed amount is
\* added to the entry e mod N of the slashings vector.
RecordSlashing ==
    \E amount \in 1..MaxSlashed :
        LET epoch == SlotToEpoch(stSlot)
            index == epoch % cs.EpochsPerSlashingsVector
            before == IF recorded[index + 1].epoch = epoch
                      THEN recorded[index + 1].amount ELSE 0
        IN  /\ pc = "idle"
            /\ last.op # "processSlashingsReset"
            /\ stSlashings[index + 1] + amount <= MaxSlashed
            /\ stSlashings' = UpdateSlashingAtIndex(
                                 stSlashings, index,
                                 stSlashings[index + 1] + amount)
            /\ recorded' = [recorded EXCEPT ![index + 1] =
                               [epoch |-> epoch, amount |-> before + amount]]
            /\ UNCHANGED <<cs, stSlot, stValidators, stBalances, stTotalActive,
                           stTotalSlashing, last, resetLog>>
            /\ UNCHANGED <<blobVars, preBlockVars, tempDirVars>>

\* The epoch transition runs processSlashingsReset, once per epoch.
EpochTransition ==
    /\ last.op # "processSlashingsReset"
    /\ ProcessSlashingsReset

\* After a successful epoch transition the chain enters the next epoch.
NextEpoch ==
    LET epoch == SlotToEpoch(stSlot)
    IN  /\ pc = "idle"
        /\ last.op = "processSlashingsReset"
        /\ last.ret = Nil
        /\ (epoch + 1) * cs.SlotsPerEpoch <= MaxSlot
        /\ stSlot' = (epoch + 1) * cs.SlotsPerEpoch
        /\ resetLog' = Append(resetLog, [epoch |-> last.epoch,
                                         index |-> last.updates[1].index])
        /\ last' = [last EXCEPT !.op = "nextEpoch"]
        /\ UNCHANGED <<cs, stSlashings, stValidators, stBalances, stTotalActive,
                       stTotalSlashing, recorded>>
        /\ UNCHANGED <<blobVars, preBlockVars, tempDirVars>>

NextEpochs ==
    \/ RecordSlashing
    \/ EpochTransition
    \/ NextEpoch

SpecEpochs == InitEpochs /\ [][NextEpochs]_vars

\* -------------------------------------------------------------- PreBlocker

\* The error a failing call of the handler returns.
CallErr(step) == <<step>>

\* One call made by the handler: the callee, the error it returned and the
\* store of the context it was given, as the callee found it.
Event(step, err, seen) == [step |-> step, err |-> err, seen |-> seen]

\* The state changes the calls make for the block at height h.
SlotChange(h) == [key |-> "slot", height |-> h]

BlockChanges(h) == {[key |-> "block", height |-> h],
                    [key |-> "sidecars", height |-> h]}

PostChange(h) == [key |-> "finalized", height |-> h]

\* ctx.CacheContext(): a context on a branch of the store that starts as a
\* copy of the parent's store.
CacheContext(store) == store

\* write(): the branch's changes are flushed into the parent's store.
Write(parent, cache) == parent \cup cache

\* Faulty variant: the handler goes on after a failed call.
ReturnsErrNever(err) == FALSE

\* if err != nil { return err }
ReturnsErr(err) == err # Nil

\* Faulty variant: the branch is written back whatever ProcessBeaconBlock
\* returned.
ShouldWriteAlways(err) == TRUE

\* The else branch of the ProcessBeaconBlock call: write() is called.
ShouldWrite(err) == err = Nil

\* A node about to handle the RequestFinalizeBlock of the first block.
InitPreBlock ==
    /\ NoBlobs
    /\ NoStateProcessor
    /\ NoEpochs
    /\ NoTempDir
    /\ hpc = "ProcessSlot"
    /\ hReq = 1
    /\ hNext \in BOOLEAN
    /\ hTrace = <<>>
    /\ hCtx = {}
    /\ hCache = {}
    /\ hWrites = 0
    /\ hRet = Nil

\* The handler is invoked for the next block, on the state the last
\* invocation left.
PreBlocker ==
    /\ hpc = "returned"
    /\ hRet = Nil
    /\ hReq < MaxHeight
    /\ hpc' = "ProcessSlot"
    /\ hReq' = hReq + 1
    /\ hTrace' = <<>>
    /\ hCache' = {}
    /\ hWrites' = 0
    /\ UNCHANGED <<hNext, hCtx, hRet>>
    /\ UNCHANGED <<blobVars, stateVars, epochVars, tempDirVars>>

\* h.chainService.ProcessSlot(ctx)
ProcessSlot ==
    \E err \in {Nil, CallErr("ProcessSlot")} :
        /\ hpc = "ProcessSlot"
        /\ hTrace' = Append(hTrace, Event("ProcessSlot", err, hCtx))
        /\ hCtx' = IF err = Nil THEN hCtx \cup {SlotChange(hReq)} ELSE hCtx
        /\ hpc' = IF ReturnsErr(err) THEN "returned"
                  ELSE "ReadOnlyBeaconBlockFromABCIRequest"
        /\ hRet' = IF ReturnsErr(err) THEN err ELSE hRet
        /\ UNCHANGED <<hReq, hNext, hCache, hWrites>>
        /\ UNCHANGED <<blobVars, stateVars, epochVars, tempDirVars>>

\* abcitypes.ReadOnlyBeaconBlockFromABCIRequest(req, ...)
ReadOnlyBeaconBlockFromABCIRequest ==
    \E err \in {Nil, CallErr("ReadOnlyBeaconBlockFromABCIRequest")} :
        /\ hpc = "ReadOnlyBeaconBlockFromABCIRequest"
        /\ hTrace' = Append(hTrace,
                            Event("ReadOnlyBeaconBlockFromABCIRequest", err, {}))
        /\ hpc' = IF ReturnsErr(err) THEN "returned" ELSE "GetBlobSideCars"
        /\ hRet' = IF ReturnsErr(err) THEN err ELSE hRet
        /\ UNCHANGED <<hReq, hNext, hCtx, hCache, hWrites>>
        /\ UNCHANGED <<blobVars, stateVars, epochVars, tempDirVars>>

\* abcitypes.GetBlobSideCars(req, h.cfg.BlobSidecarsBlockPosition)
GetBlobSideCars ==
    \E err \in {Nil, CallErr("GetBlobSideCars")} :
        /\ hpc = "GetBlobSideCars"
        /\ hTrace' = Append(hTrace, Event("GetBlobSideCars", err, {}))
        /\ hpc' = IF ReturnsErr(err) THEN "returned" ELSE "ProcessBeaconBlock"
        /\ hRet' = IF ReturnsErr(err) THEN err ELSE hRet
        /\ UNCHANGED <<hReq, hNext, hCtx, hCache, hWrites>>
        /\ UNCHANGED <<blobVars, stateVars, epochVars, tempDirVars>>

\* cacheCtx, write := ctx.CacheContext(), the call
\* h.chainService.ProcessBeaconBlock(cacheCtx, blk, blobSideCars) and the
\* branch on its error. A successful call has made all of the block's
\* changes in the branch, a failed one any part of them.
ProcessBeaconBlock ==
    \E err \in {Nil, CallErr("ProcessBeaconBlock")} :
      \E changes \in SUBSET BlockChanges(hReq) :
        LET cacheCtx == CacheContext(hCtx)
        IN  /\ hpc = "ProcessBeaconBlock"
            /\ err = Nil => changes = BlockChanges(hReq)
            /\ hTrace' = Append(hTrace,
                                Event("ProcessBeaconBlock", err, cacheCtx))
            /\ hCache' = cacheCtx \cup changes
            /\ hCtx' = IF ShouldWrite(err) THEN Write(hCtx, hCache') ELSE hCtx
            /\ hWrites' = IF ShouldWrite(err) THEN hWrites + 1 ELSE hWrites
            /\ hpc' = "PostBlockProcess"
            /\ UNCHANGED <<hReq, hNext, hRet>>
            /\ UNCHANGED <<blobVars, stateVars, epochVars, tempDirVars>>

\* h.chainService.PostBlockProcess(ctx, blk)
PostBlockProcess ==
    \E err \in {Nil, CallErr("PostBlockProcess")} :
        /\ hpc = "PostBlockProcess"
        /\ hTrace' = Append(hTrace, Event("PostBlockProcess", err, hCtx))
        /\ hCtx' = IF err = Nil THEN hCtx \cup {PostChange(hReq)} ELSE hCtx
        /\ hpc' = IF ReturnsErr(err) THEN "returned" ELSE "callNextHandler"
        /\ hRet' = IF ReturnsErr(err) THEN err ELSE hRet
        /\ UNCHANGED <<hReq, hNext, hCache, hWrites>>
        /\ UNCHANGED <<blobVars, stateVars, epochVars, tempDirVars>>

\* h.callNextHandler(ctx, req), whose result the handler returns.
CallNextHandler ==
    \E err \in {Nil, CallErr("nextHandler")} :
        /\ hpc = "callNextHandler"
        /\ ~hNext => err = Nil
        /\ hTrace' = IF hNext
                     THEN Append(hTrace, Event("nextHandler", err, hCtx))
                     ELSE hTrace
        /\ hpc' = "returned"
        /\ hRet' = err
        /\ UNCHANGED <<hReq, hNext, hCtx, hCache, hWrites>>
        /\ UNCHANGED <<blobVars, stateVars, epochVars, tempDirVars>>

NextPreBlock ==
    \/ PreBlocker
    \/ ProcessSlot
    \/ ReadOnlyBeaconBlockFromABCIRequest
    \/ GetBlobSideCars
    \/ ProcessBeaconBlock
    \/ PostBlockProcess
    \/ CallNextHandler

SpecPreBlock == InitPreBlock /\ [][NextPreBlock]_vars

\* ----------------------------------------------------------------- tempDir

\* modclient.DefaultNodeHome
DefaultNodeHome == <<"DefaultNodeHome">>

\* The directory the nth call of os.MkdirTemp("", "beacond") creates: a name
\* not in use.
TempName(n) == <<"beacond", n>>

Paths == {DefaultNodeHome} \cup {TempName(n) : n \in 1..MaxTempDirs}

\* The files a node keeps in its home directory.
NodeFiles == {"config", "data"}

Absent == [exists |-> FALSE, files |-> {}]

EmptyDir == [exists |-> TRUE, files |-> {}]

\* os.RemoveAll(path): path and everything it holds is removed; nothing
\* happens when path does not exist.
RemoveAll(files, path) == [files EXCEPT ![path] = Absent]

\* A file system without temporary directories of the node, in which the
\* node's home directory may exist, with some of its files.
InitTempDir ==
    /\ NoBlobs
    /\ NoStateProcessor
    /\ NoPreBlocker
    /\ NoEpochs
    /\ \E home \in {Absent} \cup [exists : {TRUE}, files : SUBSET NodeFiles] :
          fs = [p \in Paths |-> IF p = DefaultNodeHome THEN home ELSE Absent]
    /\ tdpc = "idle"
    /\ tdDir = <<>>
    /\ tdPre = fs
    /\ tdCalls = 0

\* tempDir() is called.
TempDirCall ==
    /\ tdpc \in {"idle", "returned"}
    /\ tdCalls < MaxTempDirs
    /\ tdpc' = "MkdirTemp"
    /\ tdCalls' = tdCalls + 1
    /\ tdPre' = fs
    /\ tdDir' = <<>>
    /\ UNCHANGED fs
    /\ UNCHANGED <<blobVars, stateVars, preBlockVars, epochVars>>

\* dir, err := os.MkdirTemp("", "beacond"); if err != nil { dir =
\* modclient.DefaultNodeHome }; defer os.RemoveAll(dir)
MkdirTemp ==
    \E ok \in BOOLEAN :
        /\ tdpc = "MkdirTemp"
        /\ fs' = IF ok THEN [fs EXCEPT ![TempName(tdCalls)] = EmptyDir] ELSE fs
        /\ tdDir' = IF ok THEN TempName(tdCalls) ELSE DefaultNodeHome
        /\ tdpc' = "return"
        /\ UNCHANGED <<tdPre, tdCalls>>
        /\ UNCHANGED <<blobVars, stateVars, preBlockVars, epochVars>>

\* return dir: the deferred os.RemoveAll(dir) runs; its error, if it fails,
\* is dropped.
TempDirReturn ==
    \E removed \in BOOLEAN :
        /\ tdpc = "return"
        /\ fs' = IF removed THEN RemoveAll(fs, tdDir) ELSE fs
        /\ tdpc' = "returned"
        /\ UNCHANGED <<tdDir, tdPre, tdCalls>>
        /\ UNCHANGED <<blobVars, stateVars, preBlockVars, epochVars>>

NextTempDir ==
    \/ TempDirCall
    \/ MkdirTemp
    \/ TempDirReturn

SpecTempDir == InitTempDir /\ [][NextTempDir]_vars

\* ------------------------------------------------------ claims: ProcessBlobs

\* Ground truth of the two checks, read off the inputs.
AllInclusionOK == \A i \in 1..Len(sidecars) : sidecars[i] = "valid"

KZGOK == kzgOutcome = Nil

BothTasksFinished ==
    /\ \A t \in Tasks : task[t] = "done"
    /\ gWg = 0
    /\ mapDone = 1..Len(sidecars)

\* Every error name of part occurs in err.
Reflects(err, part) ==
    \A k \in 1..Len(part) : \E j \in 1..Len(err) : err[j] = part[k]

\* C1: avs.Persist is invoked only if every sidecar passed the inclusion-proof
\* check and the aggregate KZG check passed; if either check fails,
\* ProcessBlobs returns a non-nil error and Persist is never invoked.
C1_PersistOnlyIfBothChecksPass ==
    /\ (pc = "persist" \/ persistCalls # <<>>) => (AllInclusionOK /\ KZGOK)
    /\ ~(AllInclusionOK /\ KZGOK) => persistCalls = <<>>
    /\ (pc = "done" /\ ~(AllInclusionOK /\ KZGOK)) => ret # Nil

\* C1 witness: every sidecar passes its inclusion proof, the aggregate proof
\* fails, and ProcessBlobs has returned an error without persisting.
C1_Witness ==
    /\ pc = "done"
    /\ Len(sidecars) >= 2
    /\ AllInclusionOK
    /\ ~KZGOK
    /\ ret # Nil
    /\ persistCalls = <<>>

C3_ReturnsAfterBothTasks ==
    (pc \in {"persist", "done"}) =>
        /\ BothTasksFinished
        /\ Len(doneOrder) = 2
        /\ taskErr["kzg"] = kzgOutcome
        /\ Len(taskErr["incl"]) =
              Cardinality({i \in 1..Len(sidecars) : sidecars[i] # "valid"})

\* C3 witness: the inclusion task failed first, the aggregate task still ran
\* to its own failure, and only then ProcessBlobs returned.
C3_Witness ==
    /\ pc = "done"
    /\ Len(sidecars) >= 2
    /\ doneOrder = <<"incl", "kzg">>
    /\ taskErr["incl"] # Nil
    /\ taskErr["kzg"] = ErrVerifyKZGProofs
    /\ gCtxDone

\* C4: when avs.Persist is invoked both verification tasks have already
\* terminated; no task is still running at or after the persistence call.
C4_PersistAfterVerification ==
    (pc = "persist" \/ persistCalls # <<>>) =>
        /\ \A t \in Tasks : task[t] = "done"
        /\ gWg = 0

\* C4 witness: Persist has been invoked on a non-empty batch.
C4_Witness ==
    /\ Len(persistCalls) = 1
    /\ Len(sidecars) >= 2
    /\ pc = "done"

\* C5 (as claimed): a timeout or cancellation raised while ProcessBlobs is
\* verifying makes the run unwind, and Persist is never invoked on it.
C5_NoPersistOnCancelledRun ==
    signal => persistCalls = <<>>

\* C5 (amended): ProcessBlobs has no cancellation input; a signal raised
\* while it verifies is not observed: both tasks still run to completion and
\* Persist is invoked exactly when both checks pass, as on any other run.
C5_SignalIsNotObserved ==
    (signal /\ pc = "done") =>
        /\ BothTasksFinished
        /\ taskErr["kzg"] = kzgOutcome
        /\ (persistCalls # <<>>) <=> (AllInclusionOK /\ KZGOK)
        /\ (ret = Nil) <=> (AllInclusionOK /\ KZGOK /\ persistOutcome = Nil)

\* C5 witness: the signal was raised during verification and the batch was
\* persisted all the same.
C5_Witness ==
    /\ signal
    /\ pc = "done"
    /\ Len(sidecars) >= 1
    /\ Len(persistCalls) = 1

\* C6: the inclusion-proof task checks every position, a nil sidecar counts
\* as a failure of its position, and the task's error combines the errors of
\* all failing positions; a batch holding a nil sidecar is never persisted
\* and ProcessBlobs returns an error for it.
C6_InclusionTaskCollectsAllFailures ==
    /\ task["incl"] = "done" =>
          /\ mapDone = 1..Len(sidecars)
          /\ Len(taskErr["incl"]) =
                Cardinality({i \in 1..Len(sidecars) : sidecars[i] # "valid"})
          /\ Cardinality({k \in 1..Len(taskErr["incl"]) :
                   taskErr["incl"][k] = ErrAttemptedToVerifyNilSidecar[1]}) =
                Cardinality({i \in 1..Len(sidecars) : sidecars[i] = "nil"})
    /\ (\E i \in 1..Len(sidecars) : sidecars[i] = "nil") =>
          /\ persistCalls = <<>>
          /\ pc # "persist"
          /\ pc = "done" => ret # Nil

\* C6 witness: a batch with one nil sidecar, one bad inclusion proof and one
\* good one; the task reported both failures and ProcessBlobs returned them.
C6_Witness ==
    /\ pc = "done"
    /\ Len(sidecars) = 3
    /\ Cardinality({i \in 1..Len(sidecars) : sidecars[i] = "nil"}) = 1
    /\ Cardinality({i \in 1..Len(sidecars) : sidecars[i] = "invalid"}) = 1
    /\ Len(taskErr["incl"]) = 2
    /\ ret = taskErr["incl"]
    /\ persistCalls = <<>>

\* C7: when both checks succeed ProcessBlobs invokes avs.Persist exactly once,
\* with the slot and the full batch it was given, and returns Persist's
\* outcome.
C7_PersistsWholeBatchOnce ==
    /\ Len(persistCalls) <= 1
    /\ (pc = "done" /\ AllInclusionOK /\ KZGOK) =>
          /\ persistCalls = <<[slot |-> bSlot, sidecars |-> sidecars]>>
          /\ ret = persistOutcome

\* C7 witness: a verified batch whose store write failed: the store's error
\* is what ProcessBlobs returned.
C7_Witness ==
    /\ pc = "done"
    /\ Len(sidecars) >= 2
    /\ AllInclusionOK
    /\ KZGOK
    /\ Len(persistCalls) = 1
    /\ persistOutcome = ErrPersist
    /\ ret = ErrPersist

\* ------------------------------------------------- claims: state processor

\* C8: a successful processSlashingsReset at epoch E with a vector of length
\* N leaves the entry at index (E+1) mod N equal to 0 and every other entry
\* of the slashings vector unchanged.
C8_ResetClearsNextEpochEntryOnly ==
    (last.op = "processSlashingsReset" /\ last.ret = Nil) =>
        LET N == cs.EpochsPerSlashingsVector
            E == stSlot \div cs.SlotsPerEpoch
            index == (E + 1) % N
        IN  /\ Len(stSlashings) = N
            /\ stSlashings[index + 1] = 0
            /\ \A j \in 1..N :
                  j # index + 1 => stSlashings[j] = last.preSlashings[j]

\* C8 witness: a reset that cleared a non-zero entry of a vector of length 3
\* whose other entries are non-zero and still there.
C8_Witness ==
    /\ last.op = "processSlashingsReset"
    /\ last.ret = Nil
    /\ cs.EpochsPerSlashingsVector = 3
    /\ stSlot \div cs.SlotsPerEpoch = 1
    /\ last.preSlashings = <<1, 2, 2>>
    /\ stSlashings = <<1, 2, 0>>

\* The validators processSlashings is to penalize at the state's epoch.
Qualifies(i) ==
    /\ stValidators[i].Slashed
    /\ stValidators[i].WithdrawableEpoch =
          ((stSlot \div cs.SlotsPerEpoch) + cs.EpochsPerSlashingsVector) \div 2

\* C9: processSlashings calls the balance decrease only for validators that
\* are slashed and whose withdrawable epoch equals floor((E + N) / 2); the
\* balance of every other validator is unchanged after the pass, and a pass
\* that succeeds has scanned all validators: each qualifying one got its call.
C9_OnlyQualifyingValidatorsArePenalized ==
    last.op = "processSlashings" =>
        /\ \A k \in 1..Len(last.decreases) : Qualifies(last.decreases[k].idx)
        /\ \A i \in 1..Len(stValidators) :
              ~Qualifies(i) => stBalances[i] = last.preBalances[i]
        /\ last.ret = Nil =>
              \A i \in 1..Len(stValidators) :
                 Qualifies(i) =>
                    \E k \in 1..Len(last.decreases) : last.decreases[k].idx = i

\* C9 witness: a successful pass over two slashed validators of which only
\* the second is at the penalized epoch: its balance went down, the first
\* one's did not.
C9_Witness ==
    /\ last.op = "processSlashings"
    /\ last.ret = Nil
    /\ stValidators[1].Slashed
    /\ stValidators[2].Slashed
    /\ ~Qualifies(1)
    /\ Qualifies(2)
    /\ stBalances[1] = last.preBalances[1]
    /\ stBalances[2] < last.preBalances[2]
    /\ Len(last.decreases) = 1

\* C10: the adjustedTotalSlashingBalance processSlashings uses is
\* min(S * M, B) with S * M the exact product of the two 64-bit values.
C10_AdjustedIsExactClampedProduct ==
    (last.op = "processSlashings" /\ last.computed) =>
        last.adjusted =
            Min(stTotalSlashing * cs.ProportionalSlashingMultiplier,
                stTotalActive)

\* C11: for every penalized validator the amount passed to DecreaseBalance is
\* floor(floor(effectiveBalance / increment) * adjustedTotalSlashingBalance
\* / totalActiveBalance) * increment, the division done before the final
\* multiplication, and the decrease goes to the index of the validator that
\* holds the penalized validator's public key.
C11_PenaltyIsExactFormula ==
    last.op = "processSlashings" =>
        \A k \in 1..Len(last.decreases) :
            LET d == last.decreases[k]
                increment == cs.EffectiveBalanceIncrement
                balanceUnits == d.effectiveBalance \div increment
                penaltyNumerator == balanceUnits * d.adjusted
            IN  /\ d.amount = (penaltyNumerator \div stTotalActive) * increment
                /\ stValidators[d.idx].Pubkey = d.pubkey

\* C14: within one processSlashings pass the adjustedTotalSlashingBalance and
\* the totalActiveBalance are taken once before the loop, and every
\* processSlash call of the pass gets these same two values, whatever the
\* earlier calls of the pass have deducted.
C14_PassConstantsAreFrozen ==
    last.op = "processSlashings" =>
        \A k \in 1..Len(last.decreases) :
            /\ last.decreases[k].adjusted = last.adjusted
            /\ last.decreases[k].totalBalance = stTotalActive

\* C14 witness: a pass that penalized two validators, the first by a non-zero
\* amount that lowered its balance before the second was processed.
C14_Witness ==
    /\ last.op = "processSlashings"
    /\ last.ret = Nil
    /\ Len(last.decreases) = 2
    /\ last.decreases[1].amount > 0
    /\ stBalances[last.decreases[1].idx] < last.preBalances[last.decreases[1].idx]
    /\ last.decreases[2].totalBalance = stTotalActive
    /\ last.decreases[2].adjusted = last.adjusted

\* The number of qualifying validators among the first i of the scan.
QualifyingUpTo(i) == Cardinality({j \in 1..i : Qualifies(j)})

\* C15: when ValidatorIndexByPubkey or DecreaseBalance fails for the k-th
\* penalized validator, processSlashings returns that error at once: the k-1
\* earlier penalized validators keep their decreases, the k-th and every
\* later validator keep their balances, and no validator is processed twice;
\* when a read before the loop fails, no balance is changed and no decrease
\* was attempted.
C15_FailureStopsPassWithoutRollback ==
    last.op = "processSlashings" =>
        LET viaIndex == last.ret = StateErr("ValidatorIndexByPubkey")
            viaDecrease == last.ret = StateErr("DecreaseBalance")
            n == Len(last.decreases)
            k == IF viaDecrease THEN n ELSE n + 1
        IN  /\ (viaIndex \/ viaDecrease) =>
                  /\ \E i \in 1..Len(stValidators) :
                        Qualifies(i) /\ QualifyingUpTo(i) = k
                  /\ \A i \in 1..Len(stValidators) :
                        IF Qualifies(i) /\ QualifyingUpTo(i) < k
                        THEN LET d == last.decreases[QualifyingUpTo(i)]
                                 pre == last.preBalances[i]
                             IN  /\ d.idx = i
                                 /\ stBalances[i] =
                                       IF d.amount > pre THEN 0
                                       ELSE pre - d.amount
                        ELSE stBalances[i] = last.preBalances[i]
                  /\ viaDecrease =>
                        /\ Qualifies(last.decreases[k].idx)
                        /\ QualifyingUpTo(last.decreases[k].idx) = k
                  /\ \A a, b \in 1..n :
                        a # b => last.decreases[a].idx # last.decreases[b].idx
            /\ (\E r \in 1..Len(PreLoopReads) :
                    last.ret = StateErr(PreLoopReads[r])) =>
                  /\ stBalances = last.preBalances
                  /\ last.decreases = <<>>

\* C15 witness: DecreaseBalance failed for the second penalized validator;
\* the first one's balance stays lowered, the second one's is untouched.
C15_Witness ==
    /\ last.op = "processSlashings"
    /\ last.ret = StateErr("DecreaseBalance")
    /\ Len(last.decreases) = 2
    /\ last.decreases[2].amount > 0
    /\ stBalances[1] < last.preBalances[1]
    /\ stBalances[2] = last.preBalances[2]
    /\ last.preBalances[2] > 0

\* C16: for every input state, also one whose totalActiveBalance,
\* EffectiveBalanceIncrement or EpochsPerSlashingsVector is 0,
\* processSlashings and processSlashingsReset end by returning nil or an
\* error value: no call ends in a panic.
C16_NoPanic ==
    last.op \in {"processSlashings", "processSlashingsReset"} =>
        last.ret # PanicDivideByZero

\* The successful resets so far, the one of the current epoch included.
ResetsSoFar ==
    IF last.op = "processSlashingsReset" /\ last.ret = Nil
    THEN Append(resetLog, [epoch |-> last.epoch,
                           index |-> last.updates[1].index])
    ELSE resetLog

\* The number of resets that ran at the epochs from e on.
ResetsSince(e) ==
    Cardinality({r \in 1..Len(ResetsSoFar) : ResetsSoFar[r].epoch >= e})

\* C18: with processSlashingsReset run once at each epoch in turn and a vector
\* of length N, an amount recorded during epoch e in entry e mod N is still
\* there after the resets of epochs e to e+N-2 and is zero after the reset of
\* epoch e+N-1; no two of any N consecutive resets clear the same entry, and
\* every entry that is not zero was recorded less than N epochs ago.
C18_EntryLivesOneWindow ==
    LET N == cs.EpochsPerSlashingsVector
        E == stSlot \div cs.SlotsPerEpoch
    IN  /\ \A j \in 1..Len(recorded) :
              IF recorded[j].amount > 0 /\ ResetsSince(recorded[j].epoch) <= N - 1
              THEN /\ recorded[j].epoch % N = j - 1
                   /\ stSlashings[j] = recorded[j].amount
                   /\ E - recorded[j].epoch < N
              ELSE stSlashings[j] = 0
        /\ \A a, b \in 1..Len(ResetsSoFar) :
              /\ ResetsSoFar[a].epoch = a - 1
              /\ (a < b /\ b - a < N) =>
                    ResetsSoFar[a].index # ResetsSoFar[b].index
              /\ b - a = N => ResetsSoFar[a].index = ResetsSoFar[b].index

\* C18 witness: with a vector of length 3, the amount recorded during epoch 0
\* in entry 0 went through the resets of epochs 0 and 1 and has just been
\* cleared by the reset of epoch 2, while the amount recorded during epoch 1
\* is still in entry 1.
C18_Witness ==
    /\ cs.EpochsPerSlashingsVector = 3
    /\ last.op = "processSlashingsReset"
    /\ last.ret = Nil
    /\ last.epoch = 2
    /\ recorded[1] = [epoch |-> 0, amount |-> 2]
    /\ last.preSlashings[1] = 2
    /\ stSlashings[1] = 0
    /\ recorded[2] = [epoch |-> 1, amount |-> 1]
    /\ stSlashings[2] = 1
    /\ Len(resetLog) = 2

\* The balances a pass without an accessor failure leaves when it scans the
\* validators of the state in the order given by the permutation order.
ScanResult(order) ==
    SlashValidators(
        [i \in 1..Len(stValidators) |-> stValidators[order[i]]],
        [balances |-> last.preBalances, decreases |-> <<>>, ret |-> Nil,
         slashed |-> 0],
        last.adjusted, stTotalActive, last.epoch,
        [op |-> "none", nth |-> 0])

\* C19: the balances a successful processSlashings pass leaves are the
\* balances the pass leaves for any other order of scanning the same
\* validators of the same state snapshot.
C19_ScanOrderDoesNotMatter ==
    (last.op = "processSlashings" /\ last.ret = Nil) =>
        \A order \in Permutations(1..Len(stValidators)) :
            /\ ScanResult(order).ret = Nil
            /\ ScanResult(order).balances = stBalances

\* C19 witness: a successful pass that penalized both validators by different
\* non-zero amounts.
C19_Witness ==
    /\ last.op = "processSlashings"
    /\ last.ret = Nil
    /\ Len(last.decreases) = 2
    /\ last.decreases[1].amount > 0
    /\ last.decreases[2].amount > last.decreases[1].amount
    /\ stBalances # last.preBalances

\* -------------------------------------------------------- claims: PreBlocker

\* The four steps of an invocation, in the order of the handler's text.
StepOrder ==
    <<"ProcessSlot", "ProcessBeaconBlock", "PostBlockProcess", "nextHandler">>

\* The position of a step in StepOrder, 0 for any other call.
StepRank(step) ==
    IF \E r \in 1..Len(StepOrder) : StepOrder[r] = step
    THEN CHOOSE r \in 1..Len(StepOrder) : StepOrder[r] = step
    ELSE 0

\* The step was called by the running invocation.
Called(step) == \E i \in 1..Len(hTrace) : hTrace[i].step = step

\* The step was called by the running invocation and returned an error.
Failed(step) ==
    \E i \in 1..Len(hTrace) : hTrace[i].step = step /\ hTrace[i].err # Nil

\* C12: an invocation of the PreBlocker calls ProcessSlot, ProcessBeaconBlock,
\* PostBlockProcess and the next handler in this order, each at most once; a
\* step is called only after the step before it was called and has returned,
\* and when ProcessSlot fails none of the later steps is called.
C12_StepsRunOnceInFixedOrder ==
    /\ \A i, j \in 1..Len(hTrace) :
          (i < j /\ StepRank(hTrace[i].step) > 0 /\ StepRank(hTrace[j].step) > 0)
             => StepRank(hTrace[i].step) < StepRank(hTrace[j].step)
    /\ \A j \in 1..Len(hTrace) :
          StepRank(hTrace[j].step) > 1 =>
             \E i \in 1..(j - 1) :
                StepRank(hTrace[i].step) = StepRank(hTrace[j].step) - 1
    /\ Failed("ProcessSlot") =>
          /\ ~Called("ProcessBeaconBlock")
          /\ ~Called("PostBlockProcess")
          /\ ~Called("nextHandler")
          /\ hpc = "returned"
          /\ hRet # Nil

\* C12 witness: the invocation for the second block has returned after
\* calling all four steps, the last one being the next handler.
C12_Witness ==
    /\ hpc = "returned"
    /\ hReq = 2
    /\ hNext
    /\ Len(hTrace) = 6
    /\ hTrace[1].step = "ProcessSlot"
    /\ hTrace[4].step = "ProcessBeaconBlock"
    /\ hTrace[5].step = "PostBlockProcess"
    /\ hTrace[6].step = "nextHandler"

\* C13: a block whose ProcessBeaconBlock call returned an error is rejected:
\* PostBlockProcess is not called for it and the invocation does not return
\* nil (success).
C13_FailedBlockIsRejected ==
    Failed("ProcessBeaconBlock") =>
        /\ ~Called("PostBlockProcess")
        /\ hpc = "returned" => hRet # Nil

\* The changes the ProcessBeaconBlock call of the running invocation made in
\* the cache context: what the branch holds beyond what it started with.
CacheChanges ==
    LET i == CHOOSE j \in 1..Len(hTrace) : hTrace[j].step = "ProcessBeaconBlock"
    IN  hCache \ hTrace[i].seen

\* C17: the changes ProcessBeaconBlock made in the cache context are committed
\* with write() if and only if the call returned no error: after a successful
\* call write() ran once and PostBlockProcess and the next handler see the
\* changes in ctx; after a failed call write() did not run and none of the
\* changes is in ctx, neither when PostBlockProcess nor when the next handler
\* is called.
C17_CacheCommittedIffBlockProcessed ==
    /\ ~Called("ProcessBeaconBlock") => hWrites = 0
    /\ Called("ProcessBeaconBlock") =>
          IF Failed("ProcessBeaconBlock")
          THEN /\ hWrites = 0
               /\ CacheChanges \cap hCtx = {}
               /\ \A i \in 1..Len(hTrace) :
                     hTrace[i].step \in {"PostBlockProcess", "nextHandler"}
                        => CacheChanges \cap hTrace[i].seen = {}
          ELSE /\ hWrites = 1
               /\ CacheChanges \subseteq hCtx
               /\ \A i \in 1..Len(hTrace) :
                     hTrace[i].step \in {"PostBlockProcess", "nextHandler"}
                        => CacheChanges \subseteq hTrace[i].seen

\* C17 witness: the second block's ProcessBeaconBlock failed after changing
\* the cache context; PostBlockProcess and the next handler ran on a ctx that
\* holds the first block's changes and none of the second's.
C17_Witness ==
    /\ hpc = "returned"
    /\ hReq = 2
    /\ Failed("ProcessBeaconBlock")
    /\ CacheChanges = BlockChanges(2)
    /\ Called("PostBlockProcess")
    /\ Called("nextHandler")
    /\ BlockChanges(1) \subseteq hCtx
    /\ BlockChanges(2) \cap hCtx = {}

\* --------------------------------------------------------- claims: tempDir

\* C20: a call of tempDir removes nothing but the temporary directory it
\* created itself: every directory that existed when it was called, the
\* default node home it falls back to included, exists with its files when
\* it returns.
C20_RemovesOnlyItsOwnDirectory ==
    tdpc = "returned" =>
        \A p \in Paths : tdPre[p].exists => fs[p] = tdPre[p]

====
